---------------------------- MODULE Spec2Model ----------------------------
(***************************************************************************)
(* Model of the RPC throttling and fail-over core of the liquidation       *)
(* indexer: TokenBucket (src/src/tokenBucket.ts), RPCRequestQueue /        *)
(* RPCThrottleManager, RPCManager and executeWithRPCRotation               *)
(* (src/src/rpcThrottler.ts).                                              *)
(*                                                                         *)
(* Units.  Token counts are JavaScript numbers; they are kept here as      *)
(* integers in units of 1/TokUnit token.  The clock `now` counts ticks of  *)
(* 1/TicksPerSecond second, with TicksPerSecond = TokUnit * RefillRate, so *)
(* that one tick refills exactly one unit and every quantity the code      *)
(* computes from Date.now() differences is an exact integer.  Durations    *)
(* (wait times) are in ticks: one tick is 1000 / TicksPerSecond ms.        *)
(* Floating-point rounding is not modelled.                                *)
(*                                                                         *)
(* Steps.  The run time is single-threaded: an action is the code that     *)
(* runs between two suspension points (await / timer / promise callback).  *)
(***************************************************************************)
EXTENDS Integers, Sequences, FiniteSets, TLC

\* ------------------------------------------------------------ bounds ----
\* Resolution of a token count: a token is TokUnit units.
TokUnit == 2
\* Largest configured bucket capacity (RPC_RATE_CAPACITY), in tokens.
MaxCapacity == 2
\* The clock runs from StartTime to StartTime + MaxTime.
MaxTime == 4
\* Direct users of one TokenBucket in the bucket-level specification.
MaxWaiters == 2
\* Orchestrated calls submitted in one run.
MaxCalls == 3
\* Largest number of endpoints configured for a chain (RPC_URL_<chain>).
MaxEndpoints == 2
\* Largest configured concurrency limit (RPC_MAX_CONCURRENT).
MaxConcurrentCfg == 2

\* ------------------------------------------------- program constants ----
\* RPC_RATE_LIMIT default: tokens per second.
RefillRate == 20
\* Date.now() when the process starts, in ticks (any value large enough
\* that an endpoint with lastUsed = 0 has been idle for more than 100 s).
StartTime == 100000

TicksPerSecond == TokUnit * RefillRate

Min(a, b) == IF a < b THEN a ELSE b

VARIABLES
    now,          \* Date.now(), in ticks
    bucket,       \* bucket-level specification: one TokenBucket
    waiters,      \* its users: position in waitForToken
    ret,          \* what the last TokenBucket call observed and returned
    config,       \* resolved process.env settings of each chain
    health,       \* how the operation behaves against each endpoint
    queues,       \* RPCThrottleManager.queues: chain -> RPCRequestQueue
    chainConfigs, \* RPCManager.chainConfigs: chain -> ChainRPCConfig
    calls,        \* each executeWithRPCRotation call: position and locals
    admitted      \* per chain, the calls in the order they took a slot

bucketVars == <<bucket, waiters, ret>>
systemVars == <<config, health, queues, chainConfigs, calls, admitted>>
vars == <<now, bucket, waiters, ret, config, health, queues, chainConfigs,
          calls, admitted>>

\* ------------------------------------------------------- TokenBucket ----

\* constructor(capacity, refillRate, identifier): starts full.
NewBucket(capacity, refillRate, t) ==
    [capacity |-> capacity * TokUnit, tokens |-> capacity * TokUnit,
     refillRate |-> refillRate, lastRefill |-> t]

\* timeSinceLastRefill * refillRate, in units.
TokensToAdd(b, t) ==
    ((t - b.lastRefill) * b.refillRate * TokUnit) \div TicksPerSecond

\* Variant of refill without the Math.min against the capacity; C23 must
\* tell it from the capped refill.
Mut_RefillUncapped(b, t) ==
    IF TokensToAdd(b, t) > 0
    THEN [b EXCEPT !.tokens = b.tokens + TokensToAdd(b, t), !.lastRefill = t]
    ELSE b

\* Variant of refill without the test tokensToAdd > 0: the amount is added
\* whatever its sign; C34 must tell it from the guarded refill.
Mut_RefillUnguarded(b, t) ==
    [b EXCEPT !.tokens = Min(b.capacity, b.tokens + TokensToAdd(b, t)),
              !.lastRefill = t]

\* refill(): only a positive amount changes tokens and lastRefill.
Refill(b, t) ==
    IF TokensToAdd(b, t) > 0
    THEN [b EXCEPT !.tokens = Min(b.capacity, b.tokens + TokensToAdd(b, t)),
                   !.lastRefill = t]
    ELSE b

\* Mutant: the availability test is "tokens > 0" instead of "tokens >= 1".
Mut_TryConsume(b, t) ==
    LET r == Refill(b, t) IN
    IF r.tokens > 0
    THEN [bucket |-> [r EXCEPT !.tokens = r.tokens - TokUnit], ok |-> TRUE]
    ELSE [bucket |-> r, ok |-> FALSE]

\* tryConsume(): the bucket afterwards and the value returned.
TryConsume(b, t) ==
    LET r == Refill(b, t) IN
    IF r.tokens >= TokUnit
    THEN [bucket |-> [r EXCEPT !.tokens = r.tokens - TokUnit], ok |-> TRUE]
    ELSE [bucket |-> r, ok |-> FALSE]

\* Mutant: waits for a whole token whatever fraction is already there.
Mut_WaitTime(b) ==
    (TokUnit * TicksPerSecond) \div (TokUnit * b.refillRate)

\* (tokensNeeded / refillRate) * 1000 ms, in ticks.
WaitTime(b) ==
    ((TokUnit - b.tokens) * TicksPerSecond) \div (TokUnit * b.refillRate)

\* waitForToken() up to its await: either a token is taken and 0 returned,
\* or the caller suspends on a timer of waitTime.
WaitForTokenBegin(b, t) ==
    LET r == Refill(b, t) IN
    IF r.tokens >= TokUnit
    THEN [bucket |-> [r EXCEPT !.tokens = r.tokens - TokUnit],
          suspended |-> FALSE, waitTime |-> 0]
    ELSE [bucket |-> r, suspended |-> TRUE, waitTime |-> WaitTime(r)]

\* waitForToken() after its timer: refill, then take a token unconditionally.
WaitForTokenEnd(b, t) ==
    LET r == Refill(b, t) IN [r EXCEPT !.tokens = r.tokens - TokUnit]

\* getState(): refills; the snapshot is the refilled bucket.
GetState(b, t) == Refill(b, t)

\* Variant of reset that restarts the refill clock but leaves the tokens as
\* they are; C35 must tell it from the reset to full capacity.
Mut_ResetClockOnly(b, t) == [b EXCEPT !.lastRefill = t]

\* reset()
Reset(b, t) == [b EXCEPT !.tokens = b.capacity, !.lastRefill = t]

\* --------------------------------------- bucket-level specification ----
Waiters == 1..MaxWaiters

NoRet == [op |-> "none", value |-> 0, before |-> 0, elapsed |-> 0, atCall |-> 0]
Idle == [pc |-> "idle", wakeAt |-> 0, waitTime |-> 0, atCall |-> 0]

InitBucket ==
    /\ now = StartTime
    /\ \E cap \in 1..MaxCapacity : bucket = NewBucket(cap, RefillRate, StartTime)
    /\ waiters = [w \in Waiters |-> Idle]
    /\ ret = NoRet
    /\ config = <<>>
    /\ health = <<>>
    /\ queues = <<>>
    /\ chainConfigs = <<>>
    /\ calls = <<>>
    /\ admitted = <<>>

\* What a call saw: the stored token count and the time since lastRefill.
\* atCall is the token count waitForToken computed its wait from.
Observed(op, value, atCall) ==
    [op |-> op, value |-> value, before |-> bucket.tokens,
     elapsed |-> now - bucket.lastRefill, atCall |-> atCall]

BTryConsume ==
    /\ bucket' = TryConsume(bucket, now).bucket
    /\ ret' = Observed("tryConsume", IF TryConsume(bucket, now).ok THEN 1 ELSE 0, 0)
    /\ UNCHANGED <<now, waiters, systemVars>>

BWaitForToken(w) ==
    /\ waiters[w].pc = "idle"
    /\ LET r == WaitForTokenBegin(bucket, now) IN
        /\ bucket' = r.bucket
        /\ IF r.suspended
           THEN /\ waiters' = [waiters EXCEPT ![w] =
                      [pc |-> "waiting", wakeAt |-> now + r.waitTime,
                       waitTime |-> r.waitTime, atCall |-> r.bucket.tokens]]
                /\ ret' = Observed("suspend", r.waitTime, r.bucket.tokens)
           ELSE /\ waiters' = waiters
                /\ ret' = Observed("waitForToken", 0, 0)
    /\ UNCHANGED <<now, systemVars>>

\* The timer of a suspended waitForToken fires (at its time or later).
BWake(w) ==
    /\ waiters[w].pc = "waiting"
    /\ now >= waiters[w].wakeAt
    /\ bucket' = WaitForTokenEnd(bucket, now)
    /\ ret' = Observed("resume", waiters[w].waitTime, waiters[w].atCall)
    /\ waiters' = [waiters EXCEPT ![w] = Idle]
    /\ UNCHANGED <<now, systemVars>>

BGetState ==
    /\ bucket' = GetState(bucket, now)
    /\ ret' = Observed("getState", GetState(bucket, now).tokens, 0)
    /\ UNCHANGED <<now, waiters, systemVars>>

BReset ==
    /\ bucket' = Reset(bucket, now)
    /\ ret' = Observed("reset", 0, 0)
    /\ UNCHANGED <<now, waiters, systemVars>>

Tick ==
    /\ now < StartTime + MaxTime
    /\ now' = now + 1
    /\ UNCHANGED <<bucketVars, systemVars>>

NextBucket ==
    \/ BTryConsume
    \/ \E w \in Waiters : BWaitForToken(w)
    \/ \E w \in Waiters : BWake(w)
    \/ BGetState
    \/ BReset
    \/ Tick

SpecBucket == InitBucket /\ [][NextBucket]_vars

\* ------------------------------------------------------- RPCManager ----
\* The chain ids of the registries (Map keys).  Spec submits every call on
\* the first chain; SpecChains uses both.
Chains == {1, 2}
Calls == 1..MaxCalls
\* Messages of the errors an operation rejects with (Error.message).
Msgs == {"", "timeout"}
\* lastError before any attempt has failed.
Null == "null"

\* parseInt-resolved settings of a chain: maxConcurrent, bucket capacity,
\* and the number of URLs getRPCUrlsForChain returns (0 when the generic
\* RPC_URL holds only separators).
Configs ==
    [maxConcurrent : 1..MaxConcurrentCfg, capacity : 1..MaxCapacity,
     nUrls : 0..MaxEndpoints]

NoChainConfig == [created |-> FALSE, endpoints |-> <<>>, currentIndex |-> 0]

\* ensureChainConfig: one endpoint per URL, counters 0, a full bucket each.
NewChainConfig(ch, t) ==
    [created |-> TRUE,
     endpoints |-> [i \in 1..config[ch].nUrls |->
        [url |-> i, failures |-> 0, totalRequests |-> 0,
         successfulRequests |-> 0,
         tokenBucket |-> NewBucket(config[ch].capacity, RefillRate, t),
         lastUsed |-> 0]],
     currentIndex |-> 0]

EnsureChainConfig(ch, t) ==
    IF chainConfigs[ch].created THEN chainConfigs[ch] ELSE NewChainConfig(ch, t)

\* The endpoint currentIndex points at (a 0-based index into endpoints).
Current(cfg) == cfg.endpoints[cfg.currentIndex + 1]

\* selectBestRPC, inside the loop: tryConsume() as an availability test (the
\* token it takes is not given back), then getState().
Probe(ep, t) ==
    LET taken == TryConsume(ep.tokenBucket, t).bucket
    IN  [ep EXCEPT !.tokenBucket = GetState(taken, t)]

\* The denominator of failureRate (1 when there were no requests: rate 0).
RateDen(ep) == IF ep.totalRequests > 0 THEN ep.totalRequests ELSE 1

\* selectBestRPC's score of a probed endpoint, times
\* capacity * RateDen * TicksPerSecond so that it is an integer.
ScoreNum(ep, t) ==
    LET b == ep.tokenBucket
        den == b.capacity * RateDen(ep) * TicksPerSecond
        timeSinceLastUse == t - ep.lastUsed
    IN  (IF b.tokens >= TokUnit
         THEN 1000 * den + 10 * b.tokens * RefillRate * b.capacity * RateDen(ep)
         ELSE 0 - 1000 * den)
        - 5 * 100 * (b.capacity - b.tokens) * RateDen(ep) * TicksPerSecond
        - (IF ep.totalRequests > 0
           THEN 500 * ep.failures * b.capacity * TicksPerSecond ELSE 0)
        + Min(timeSinceLastUse, 100 * TicksPerSecond) * b.capacity * RateDen(ep)

\* score(a) > score(b), the buckets having one capacity.
ScoreGreater(a, b, t) ==
    ScoreNum(a, t) * RateDen(b) > ScoreNum(b, t) * RateDen(a)

\* The loop of selectBestRPC from index i on; best = -1 stands for
\* bestScore = -Infinity.
RECURSIVE BestLoop(_, _, _, _)
BestLoop(eps, i, best, t) ==
    IF i >= Len(eps) THEN best
    ELSE IF best = -1 \/ ScoreGreater(eps[i + 1], eps[best + 1], t)
         THEN BestLoop(eps, i + 1, i, t)
         ELSE BestLoop(eps, i + 1, best, t)

\* selectBestRPC + selectBestAvailableRPC: every endpoint probed, then
\* currentIndex moved to the best index.
SelectBestAvailableRPC(cfg, t) ==
    IF Len(cfg.endpoints) = 0 THEN cfg
    ELSE LET probed == [i \in 1..Len(cfg.endpoints) |-> Probe(cfg.endpoints[i], t)]
         IN  [cfg EXCEPT !.endpoints = probed,
                         !.currentIndex = BestLoop(probed, 0, -1, t)]

\* rotateToNextRPC
RotateToNextRPC(cfg) ==
    IF Len(cfg.endpoints) = 0 THEN cfg
    ELSE [cfg EXCEPT !.endpoints[cfg.currentIndex + 1].failures = @ + 1,
                     !.currentIndex = (cfg.currentIndex + 1) % Len(cfg.endpoints)]

\* Variant of resetFailures that clears only the current endpoint's count;
\* C7 must tell it from the chain-wide reset.
Mut_ResetFailures(cfg) ==
    IF Len(cfg.endpoints) = 0 THEN cfg
    ELSE [cfg EXCEPT !.endpoints[cfg.currentIndex + 1].failures = 0]

\* resetFailures
ResetFailures(cfg) ==
    [cfg EXCEPT !.endpoints =
        [i \in 1..Len(cfg.endpoints) |-> [cfg.endpoints[i] EXCEPT !.failures = 0]]]

\* recordRequest
RecordRequest(cfg, success, t) ==
    IF Len(cfg.endpoints) = 0 THEN cfg
    ELSE [cfg EXCEPT
            !.endpoints[cfg.currentIndex + 1].totalRequests = @ + 1,
            !.endpoints[cfg.currentIndex + 1].lastUsed = t,
            !.endpoints[cfg.currentIndex + 1].successfulRequests =
                IF success THEN @ + 1 ELSE @]

\* getAllRPCUrls
GetAllRPCUrls(cfg) == [i \in 1..Len(cfg.endpoints) |-> cfg.endpoints[i].url]

\* Variant of the exhaustion error that reports the literal text whatever
\* the last error was; C8 must tell it from the real message.
Mut_ExhaustionError(cfg, lastError) ==
    [count |-> Len(GetAllRPCUrls(cfg)), urls |-> GetAllRPCUrls(cfg),
     lastMessage |-> "Unknown error"]

\* The error thrown after the loop: "Tried <count> endpoints: <urls>.
\* Last error: <lastError?.message || "Unknown error">".
ExhaustionError(cfg, lastError) ==
    [count |-> Len(GetAllRPCUrls(cfg)), urls |-> GetAllRPCUrls(cfg),
     lastMessage |-> IF lastError = Null \/ lastError = ""
                     THEN "Unknown error" ELSE lastError]

NoError == [count |-> 0, urls |-> <<>>, lastMessage |-> Null]

\* -------------------------------------------------- RPCRequestQueue ----
NoQueue ==
    [created |-> FALSE, maxConcurrent |-> 0, activeRequests |-> 0,
     queue |-> <<>>, tokenBucket |-> NewBucket(1, RefillRate, 0)]

\* new RPCRequestQueue(chainId, getMaxConcurrentForChain(chainId))
NewQueue(ch, t) ==
    [created |-> TRUE, maxConcurrent |-> config[ch].maxConcurrent,
     activeRequests |-> 0, queue |-> <<>>,
     tokenBucket |-> NewBucket(config[ch].capacity, RefillRate, t)]

\* Variant of getQueue that builds a new queue at every call; C21 must tell
\* it from the lookup.
Mut_GetQueueFresh(ch, t) == NewQueue(ch, t)

\* getQueue
GetQueue(ch, t) == IF queues[ch].created THEN queues[ch] ELSE NewQueue(ch, t)

\* Variant of the admission test that lets one call too many through; C1
\* must tell it from the strict comparison.
Mut_UnderLimit(q) == q.activeRequests <= q.maxConcurrent

\* execute: the test that sends a call to executeImmediate.
UnderLimit(q) == q.activeRequests < q.maxConcurrent

\* Variant of the slot taking that admits the request without taking the
\* chain bucket's token; C11 must tell it from the real admission.
Mut_TakeSlot(q, t) ==
    [queue |-> [q EXCEPT !.activeRequests = @ + 1,
                         !.tokenBucket = Refill(q.tokenBucket, t)],
     suspended |-> FALSE, waitTime |-> 0]

\* executeImmediate / processNextInQueue up to the await: the slot is
\* taken, then the chain bucket's waitForToken starts.
TakeSlot(q, t) ==
    LET r == WaitForTokenBegin(q.tokenBucket, t)
    IN  [queue |-> [q EXCEPT !.activeRequests = @ + 1, !.tokenBucket = r.bucket],
         suspended |-> r.suspended, waitTime |-> r.waitTime]

\* Variant of the dequeue that takes the newest pending request (pop
\* instead of shift); C2 must tell it from the FIFO dequeue.
Mut_Shift(pending) ==
    [request |-> pending[Len(pending)],
     rest |-> SubSeq(pending, 1, Len(pending) - 1)]

\* Variant of the dequeue that discards the requests behind the one it
\* takes; C19 must tell it from the dequeue that keeps them.
Mut_ShiftDrop(pending) == [request |-> Head(pending), rest |-> <<>>]

\* this.queue.shift(): the request taken and the rest.
Shift(pending) == [request |-> Head(pending), rest |-> Tail(pending)]

\* ------------------------------------------------------- the calls ----
NewCall ==
    [pc |-> "new", chain |-> 0, attempt |-> 0, maxAttempts |-> 0,
     rpcUrl |-> 0, waitOn |-> 0, wakeAt |-> 0, lastError |-> Null,
     tried |-> <<>>, thrown |-> <<>>, queuedAs |-> 0, error |-> NoError,
     result |-> 0]

\* Fields that are not variables of the code: tried (the URL each client was
\* built on), thrown (the message each attempt rejected with) and queuedAs
\* (the queue length queueRequest logs, 0 for a call that never queued).

\* How the caller's operation behaves against the endpoints of a chain with
\* n URLs: anything may happen, or the first endpoint always fails and the
\* others always succeed.
HealthScenarios(n) ==
    {[i \in 1..n |-> "flaky"]}
        \cup (IF n >= 2
              THEN {[i \in 1..n |-> IF i = 1 THEN "down" ELSE "up"]}
              ELSE {})

\* Every call of Spec is made on the first chain, whose settings are drawn
\* from Configs; the other chain, unused there, is given the same (the
\* process-wide RPC_MAX_CONCURRENT, RPC_RATE_CAPACITY, RPC_URL).  InitChains
\* draws the settings of each chain separately.
Init ==
    /\ now = StartTime
    /\ bucket = NewBucket(1, RefillRate, StartTime)
    /\ waiters = [w \in Waiters |-> Idle]
    /\ ret = NoRet
    /\ \E cf \in Configs : \E h \in HealthScenarios(cf.nUrls) :
          /\ config = [ch \in Chains |-> cf]
          /\ health = [ch \in Chains |-> h]
    /\ queues = [ch \in Chains |-> NoQueue]
    /\ chainConfigs = [ch \in Chains |-> NoChainConfig]
    /\ calls = [c \in Calls |-> NewCall]
    /\ admitted = [ch \in Chains |-> <<>>]

\* Variant of the loop iteration that waits on the bucket of the endpoint
\* currentIndex pointed at before the selection; C26 must tell it from the
\* wait on the selected endpoint.
Mut_BeginAttemptStale(cfg, call, t) ==
    LET sel == SelectBestAvailableRPC(cfg, t)
        idx == cfg.currentIndex
        r == WaitForTokenBegin(sel.endpoints[idx + 1].tokenBucket, t)
    IN  [config |-> [sel EXCEPT !.endpoints[idx + 1].tokenBucket = r.bucket],
         call |-> [call EXCEPT
                     !.pc = IF r.suspended THEN "rpcWait" ELSE "rpcReady",
                     !.rpcUrl = Current(sel).url,
                     !.waitOn = idx,
                     !.wakeAt = IF r.suspended THEN t + r.waitTime ELSE 0]]

\* One loop iteration of executeWithRPCRotation up to its await:
\* selectBestAvailableRPC, getCurrentRPCUrl, waitForRPCToken (which starts
\* waitForToken on the bucket of the endpoint at currentIndex).
BeginAttempt(cfg, call, t) ==
    LET sel == SelectBestAvailableRPC(cfg, t)
        idx == sel.currentIndex
        r == WaitForTokenBegin(Current(sel).tokenBucket, t)
    IN  [config |-> [sel EXCEPT !.endpoints[idx + 1].tokenBucket = r.bucket],
         call |-> [call EXCEPT
                     !.pc = IF r.suspended THEN "rpcWait" ELSE "rpcReady",
                     !.rpcUrl = Current(sel).url,
                     !.waitOn = idx,
                     !.wakeAt = IF r.suspended THEN t + r.waitTime ELSE 0]]

\* Variant of the slot taking that goes on to the operation without waiting
\* for the chain bucket's timer; C25 must tell it from the awaited wait.
Mut_SlottedNoWait(call, ch, taken, t) ==
    [call EXCEPT !.pc = "admitted", !.chain = ch, !.wakeAt = 0]

\* A slot is taken for call c: its position afterwards.
Slotted(call, ch, taken, t) ==
    [call EXCEPT !.pc = IF taken.suspended THEN "chainWait" ELSE "admitted",
                 !.chain = ch,
                 !.wakeAt = IF taken.suspended THEN t + taken.waitTime ELSE 0]

\* Variant of the submission with one request queue for all chains instead
\* of one per chain id; C20 must tell it from the per-chain map.
Mut_SubmitShared(c, ch) ==
    /\ calls[c].pc = "new"
    /\ \A d \in Calls : d < c => calls[d].pc # "new"
    /\ LET q == GetQueue(ch, now) IN
        IF UnderLimit(q)
        THEN LET taken == TakeSlot(q, now) IN
             /\ queues' = [y \in Chains |-> taken.queue]
             /\ calls' = [calls EXCEPT ![c] = Slotted(@, ch, taken, now)]
             /\ admitted' = [admitted EXCEPT ![ch] = Append(@, c)]
        ELSE /\ queues' = [y \in Chains |-> [q EXCEPT !.queue = Append(@, c)]]
             /\ calls' = [calls EXCEPT ![c].pc = "queued", ![c].chain = ch,
                                       ![c].queuedAs = Len(q.queue) + 1]
             /\ admitted' = admitted
    /\ UNCHANGED <<now, bucketVars, config, health, chainConfigs>>

\* executeWithRPCRotation -> executeThrottled -> getQueue, execute: under the
\* limit executeImmediate, otherwise queueRequest.  (Calls are numbered in
\* the order they are made.)
Submit(c, ch) ==
    /\ calls[c].pc = "new"
    /\ \A d \in Calls : d < c => calls[d].pc # "new"
    /\ LET q == GetQueue(ch, now) IN
        IF UnderLimit(q)
        THEN LET taken == TakeSlot(q, now) IN
             /\ queues' = [queues EXCEPT ![ch] = taken.queue]
             /\ calls' = [calls EXCEPT ![c] = Slotted(@, ch, taken, now)]
             /\ admitted' = [admitted EXCEPT ![ch] = Append(@, c)]
        ELSE /\ queues' = [queues EXCEPT ![ch] = [q EXCEPT !.queue = Append(@, c)]]
             /\ calls' = [calls EXCEPT ![c].pc = "queued", ![c].chain = ch,
                                       ![c].queuedAs = Len(q.queue) + 1]
             /\ admitted' = admitted
    /\ UNCHANGED <<now, bucketVars, config, health, chainConfigs>>

\* The timer of the chain bucket's waitForToken fires for call c.
ChainTokenWake(c) ==
    /\ calls[c].pc = "chainWait"
    /\ now >= calls[c].wakeAt
    /\ queues' = [queues EXCEPT ![calls[c].chain].tokenBucket =
                        WaitForTokenEnd(@, now)]
    /\ calls' = [calls EXCEPT ![c].pc = "admitted", ![c].wakeAt = 0]
    /\ UNCHANGED <<now, bucketVars, config, health, chainConfigs, admitted>>

\* Variant of the throw after the loop that returns normally instead; C13
\* must tell it from the rejection.
Mut_Exhausted(call, cfg) ==
    [call EXCEPT !.pc = "resolved", !.waitOn = 0, !.rpcUrl = 0, !.wakeAt = 0]

\* Variant of the end of the loop that starts the loop again instead of
\* throwing; C12 must tell it from the bounded loop.
Mut_ExhaustedRetry(call, cfg) ==
    [call EXCEPT !.pc = "admitted", !.waitOn = 0, !.rpcUrl = 0, !.wakeAt = 0]

\* After the loop of executeWithRPCRotation: throw.
Exhausted(call, cfg) ==
    [call EXCEPT !.pc = "rejected", !.error = ExhaustionError(cfg, call.lastError),
                 !.waitOn = 0, !.rpcUrl = 0, !.wakeAt = 0]

\* The wrapped operation starts: getRPCCount (which creates the chain's
\* endpoints on first use), then the first loop iteration.
StartOperation(c) ==
    /\ calls[c].pc = "admitted"
    /\ LET ch == calls[c].chain
           cfg == EnsureChainConfig(ch, now)
           call == [calls[c] EXCEPT !.maxAttempts = Len(cfg.endpoints),
                                    !.attempt = 0]
       IN  IF call.attempt < call.maxAttempts
           THEN LET b == BeginAttempt(cfg, call, now) IN
                /\ chainConfigs' = [chainConfigs EXCEPT ![ch] = b.config]
                /\ calls' = [calls EXCEPT ![c] = b.call]
           ELSE /\ chainConfigs' = [chainConfigs EXCEPT ![ch] = cfg]
                /\ calls' = [calls EXCEPT ![c] = Exhausted(call, cfg)]
    /\ UNCHANGED <<now, bucketVars, config, health, queues, admitted>>

\* The timer of the endpoint bucket's waitForToken fires for call c: the
\* bucket is the one of the endpoint waitForRPCToken picked.
RpcTokenWake(c) ==
    /\ calls[c].pc = "rpcWait"
    /\ now >= calls[c].wakeAt
    /\ chainConfigs' = [chainConfigs EXCEPT
            ![calls[c].chain].endpoints[calls[c].waitOn + 1].tokenBucket =
                WaitForTokenEnd(@, now)]
    /\ calls' = [calls EXCEPT ![c].pc = "rpcReady", ![c].wakeAt = 0]
    /\ UNCHANGED <<now, bucketVars, config, health, queues, admitted>>

\* After await waitForRPCToken: recordRequest(chainId, false), the client
\* is built on rpcUrl and the operation invoked.
InvokeOperation(c) ==
    /\ calls[c].pc = "rpcReady"
    /\ chainConfigs' = [chainConfigs EXCEPT ![calls[c].chain] =
                            RecordRequest(@, FALSE, now)]
    /\ calls' = [calls EXCEPT ![c].pc = "inOp",
                              ![c].tried = Append(@, calls[c].rpcUrl)]
    /\ UNCHANGED <<now, bucketVars, config, health, queues, admitted>>

\* The operation resolves: recordRequest(chainId, true), resetFailures,
\* return result.
OperationSucceeds(c) ==
    /\ calls[c].pc = "inOp"
    /\ health[calls[c].chain][calls[c].rpcUrl] \in {"up", "flaky"}
    /\ chainConfigs' = [chainConfigs EXCEPT ![calls[c].chain] =
                            ResetFailures(RecordRequest(@, TRUE, now))]
    /\ calls' = [calls EXCEPT ![c].pc = "resolved",
                              ![c].result = calls[c].rpcUrl]
    /\ UNCHANGED <<now, bucketVars, config, health, queues, admitted>>

\* The operation rejects with message msg: the catch block (rotate unless
\* this was the last attempt), then the next loop iteration or the throw.
OperationFails(c, msg) ==
    /\ calls[c].pc = "inOp"
    /\ health[calls[c].chain][calls[c].rpcUrl] \in {"down", "flaky"}
    /\ LET ch == calls[c].chain
           cfg == IF calls[c].attempt < calls[c].maxAttempts - 1
                  THEN RotateToNextRPC(chainConfigs[ch])
                  ELSE chainConfigs[ch]
           call == [calls[c] EXCEPT !.lastError = msg, !.attempt = @ + 1,
                                    !.thrown = Append(@, msg)]
       IN  IF call.attempt < call.maxAttempts
           THEN LET b == BeginAttempt(cfg, call, now) IN
                /\ chainConfigs' = [chainConfigs EXCEPT ![ch] = b.config]
                /\ calls' = [calls EXCEPT ![c] = b.call]
           ELSE /\ chainConfigs' = [chainConfigs EXCEPT ![ch] = cfg]
                /\ calls' = [calls EXCEPT ![c] = Exhausted(call, cfg)]
    /\ UNCHANGED <<now, bucketVars, config, health, queues, admitted>>

\* Variant of the completion that settles the caller's promise without the
\* operation's value; C29 must tell it from the settlement with the
\* operation's own outcome.
Mut_FinishedNoValue(call) ==
    [NewCall EXCEPT !.pc = "done", !.chain = call.chain]

\* A finished call: only its chain and its result (0: it rejected) are kept.
Finished(call) ==
    [NewCall EXCEPT !.pc = "done", !.chain = call.chain, !.result = call.result]

\* Variant of the completion that forgets to release the slot; C14 must
\* tell it from the decrement.
Mut_ReleaseSlot(q) == q

\* onRequestComplete without its processNextInQueue: the slot is released.
ReleaseSlot(q) == [q EXCEPT !.activeRequests = @ - 1]

\* The wrapped operation has settled: finally -> onRequestComplete, which
\* releases the slot and, if a request is pending and a slot is free,
\* processNextInQueue (shift, take the slot, start the chain bucket wait).
RequestComplete(c) ==
    /\ calls[c].pc \in {"resolved", "rejected"}
    /\ LET ch == calls[c].chain
           q == ReleaseSlot(queues[ch])
       IN  IF Len(q.queue) > 0 /\ UnderLimit(q)
           THEN LET next == Shift(q.queue)
                    taken == TakeSlot([q EXCEPT !.queue = next.rest], now)
                IN  /\ queues' = [queues EXCEPT ![ch] = taken.queue]
                    /\ calls' = [calls EXCEPT
                          ![c] = Finished(@),
                          ![next.request] = Slotted(@, ch, taken, now)]
                    /\ admitted' = [admitted EXCEPT ![ch] = Append(@, next.request)]
           ELSE /\ queues' = [queues EXCEPT ![ch] = q]
                /\ calls' = [calls EXCEPT ![c] = Finished(@)]
                /\ admitted' = admitted
    /\ UNCHANGED <<now, bucketVars, config, health, chainConfigs>>

Next ==
    \/ \E c \in Calls : Submit(c, 1)
    \/ \E c \in Calls : ChainTokenWake(c)
    \/ \E c \in Calls : StartOperation(c)
    \/ \E c \in Calls : RpcTokenWake(c)
    \/ \E c \in Calls : InvokeOperation(c)
    \/ \E c \in Calls : OperationSucceeds(c)
    \/ \E c \in Calls, msg \in Msgs : OperationFails(c, msg)
    \/ \E c \in Calls : RequestComplete(c)
    \/ Tick

Spec == Init /\ [][Next]_vars

\* ------------------------------------------------ TokenBucket claims ----
\* The token count the last call saw after its lazy refill, computed as the
\* specification states it: min(capacity, tokens + elapsedSeconds * rate).
RefilledSeen ==
    Min(bucket.capacity,
        ret.before + (ret.elapsed * RefillRate * TokUnit) \div TicksPerSecond)

\* C4: tryConsume returns true and takes exactly one token if and only if
\* the token count after the lazy refill is at least 1; otherwise it returns
\* false and leaves the tokens at the refilled value.
C4_TryConsumeExact ==
    ret.op = "tryConsume" =>
        /\ (ret.value = 1) <=> (RefilledSeen >= TokUnit)
        /\ ret.value \in {0, 1}
        /\ bucket.tokens = IF RefilledSeen >= TokUnit
                           THEN RefilledSeen - TokUnit ELSE RefilledSeen

\* C4 witness: a tryConsume that succeeded only thanks to the lazy refill.
C4_Witness ==
    /\ ret.op = "tryConsume"
    /\ ret.value = 1
    /\ ret.before < TokUnit
    /\ ret.elapsed > 0
    /\ bucket.tokens = RefilledSeen - TokUnit

\* C5: waitForToken returns 0 and takes one token without suspending when
\* the refilled count is at least 1; otherwise it suspends for
\* (1 - tokens) / refillRate computed from the count at the moment of the
\* call, reports that wait, and takes exactly one token after the timer.
C5_WaitForTokenExact ==
    /\ ret.op = "waitForToken" =>
          /\ RefilledSeen >= TokUnit
          /\ ret.value = 0
          /\ bucket.tokens = RefilledSeen - TokUnit
    /\ ret.op = "suspend" =>
          /\ RefilledSeen < TokUnit
          /\ ret.atCall = RefilledSeen
          /\ bucket.tokens = RefilledSeen
          /\ ret.value * RefillRate * TokUnit
                = (TokUnit - RefilledSeen) * TicksPerSecond
    /\ ret.op = "resume" =>
          /\ ret.value * RefillRate * TokUnit
                = (TokUnit - ret.atCall) * TicksPerSecond
          /\ bucket.tokens = RefilledSeen - TokUnit
    /\ \A w \in Waiters : waiters[w].pc = "waiting" =>
          waiters[w].waitTime * RefillRate * TokUnit
                = (TokUnit - waiters[w].atCall) * TicksPerSecond

\* C5 witness: a waitForToken that found half a token, waited and resumed.
C5_Witness ==
    /\ ret.op = "resume"
    /\ ret.atCall > 0
    /\ ret.value > 0
    /\ ret.value < TicksPerSecond \div RefillRate
    /\ bucket.tokens = RefilledSeen - TokUnit

\* ------------------------------------------------- admission claims ----
Created == {ch \in Chains : queues[ch].created}

\* C1: for every chain's queue, 0 <= activeRequests <= maxConcurrent in
\* every state, whatever the interleaving of submissions, completions and
\* token-wait wake-ups.
C1_ActiveWithinLimit ==
    \A ch \in Created :
        /\ queues[ch].activeRequests >= 0
        /\ queues[ch].activeRequests <= queues[ch].maxConcurrent

\* C1 witness: a completion has handed its slot to a queued call, and the
\* limit is reached with another request still pending.
C1_Witness ==
    \E ch \in Created, c \in Calls :
        /\ queues[ch].activeRequests = queues[ch].maxConcurrent
        /\ Len(queues[ch].queue) > 0
        /\ calls[c].queuedAs > 0
        /\ calls[c].pc \in {"chainWait", "admitted", "inOp"}

\* C2: calls take their slot in the order they were made: the admission
\* order of a chain is increasing in submission order, and every call still
\* pending was made after every call admitted so far.
C2_FifoAdmission ==
    \A ch \in Chains :
        /\ \A i, j \in DOMAIN admitted[ch] :
              i < j => admitted[ch][i] < admitted[ch][j]
        /\ \A i, j \in DOMAIN queues[ch].queue :
              i < j => queues[ch].queue[i] < queues[ch].queue[j]
        /\ \A i \in DOMAIN admitted[ch], k \in DOMAIN queues[ch].queue :
              admitted[ch][i] < queues[ch].queue[k]

\* C2 witness: a call that was queued second behind another pending call
\* has been dequeued after it.
C2_Witness ==
    \E ch \in Chains, a, b \in Calls :
        /\ calls[b].queuedAs = 2
        /\ \E i, j \in DOMAIN admitted[ch] :
              i < j /\ admitted[ch][i] = a /\ admitted[ch][j] = b
        /\ a < b
        /\ calls[a].queuedAs = 1 \/ calls[a].pc = "done"

\* ------------------------------------------------------ bucket range ----
\* C3: 0 <= tokens <= capacity in every state of a bucket, for any sequence
\* of tryConsume, waitForToken, getState and reset and any elapsed times,
\* also with several callers suspended in waitForToken at the same time.
C3_TokensInRange ==
    bucket.tokens >= 0 /\ bucket.tokens <= bucket.capacity

\* --------------------------------------------------- rotation claims ----
Endpoints(ch) == DOMAIN chainConfigs[ch].endpoints
Started == {c \in Calls : calls[c].pc \notin {"new", "queued", "done"}}

\* C6: on a chain with more than one endpoint, the endpoint chosen for an
\* attempt differs from the endpoint whose attempt just failed.
C6_NextEndpointDiffers ==
    \A c \in Started :
        calls[c].maxAttempts > 1 =>
            /\ \A k \in 1..(Len(calls[c].tried) - 1) :
                  calls[c].tried[k] # calls[c].tried[k + 1]
            /\ (calls[c].pc \in {"rpcWait", "rpcReady"} /\ calls[c].tried # <<>>)
                  => calls[c].rpcUrl # calls[c].tried[Len(calls[c].tried)]

\* C7: the step in which an attempt succeeds leaves the failure count of
\* every endpoint of the chain at 0.
C7_ResetOnSuccess ==
    [][\A c \in Calls :
          (calls[c].pc = "inOp" /\ calls'[c].pc = "resolved") =>
              \A i \in Endpoints(calls[c].chain) :
                  chainConfigs'[calls[c].chain].endpoints[i].failures = 0]_vars

\* C7 witness: a call has succeeded after a failed attempt of its own (which
\* counted a failure against an endpoint), and every count is 0.
C7_Witness ==
    \E c \in Calls :
        /\ calls[c].pc = "resolved"
        /\ Len(calls[c].tried) >= 2
        /\ \A i \in Endpoints(calls[c].chain) :
              chainConfigs[calls[c].chain].endpoints[i].failures = 0

\* A call that made all its attempts and failed them all.
AllAttemptsFailed(c) ==
    /\ calls[c].pc = "rejected"
    /\ calls[c].maxAttempts >= 1
    /\ Len(calls[c].thrown) = calls[c].maxAttempts

\* C8 as stated: the aggregated error lists exactly N URLs and carries the
\* message of the last attempt's error.
C8_ErrorCarriesLastMessage ==
    \A c \in Calls : AllAttemptsFailed(c) =>
        /\ calls[c].error.count = config[calls[c].chain].nUrls
        /\ Len(calls[c].error.urls) = config[calls[c].chain].nUrls
        /\ calls[c].error.lastMessage = calls[c].thrown[Len(calls[c].thrown)]

\* C8 amended: the aggregated error lists exactly N URLs and carries the
\* message of the last attempt's error, or the text "Unknown error" when
\* that message is empty.
C8_ErrorCarriesLastMessageOrUnknown ==
    \A c \in Calls : AllAttemptsFailed(c) =>
        LET last == calls[c].thrown[Len(calls[c].thrown)] IN
        /\ calls[c].error.count = config[calls[c].chain].nUrls
        /\ Len(calls[c].error.urls) = config[calls[c].chain].nUrls
        /\ \A i \in DOMAIN calls[c].error.urls : calls[c].error.urls[i] = i
        /\ calls[c].error.lastMessage = IF last = "" THEN "Unknown error" ELSE last

\* C8 witness: two attempts failed with different messages, the last one
\* not empty.
C8_Witness ==
    \E c \in Calls :
        /\ AllAttemptsFailed(c)
        /\ calls[c].thrown = <<"", "timeout">>
        /\ calls[c].error.lastMessage = "timeout"
        /\ calls[c].error.count = 2

\* C9: a call is exhausted only when every endpoint of the chain was
\* attempted in that call, and the URLs of its error are the ones tried.
C9_ExhaustedOnlyAfterAllTried ==
    \A c \in Calls : calls[c].pc = "rejected" =>
        /\ {calls[c].tried[k] : k \in DOMAIN calls[c].tried}
              = {chainConfigs[calls[c].chain].endpoints[i].url :
                    i \in Endpoints(calls[c].chain)}
        /\ {calls[c].error.urls[k] : k \in DOMAIN calls[c].error.urls}
              = {calls[c].tried[k] : k \in DOMAIN calls[c].tried}

\* The 2-endpoint scenario: every operation against the first endpoint
\* fails, every operation against the second succeeds.
FirstDownSecondUp(ch) ==
    /\ config[ch].nUrls = 2
    /\ health[ch] = <<"down", "up">>

\* C10: in that scenario a call never rejects; it resolves with the second
\* endpoint's result, after exactly 2 attempts when the first endpoint was
\* chosen first, and the first endpoint's failure count is then 0.
C10_FailoverResolves ==
    \A c \in Started : FirstDownSecondUp(calls[c].chain) =>
        /\ calls[c].pc # "rejected"
        /\ calls[c].pc = "resolved" =>
              /\ calls[c].result = 2
              /\ calls[c].tried[1] = 1 => Len(calls[c].tried) = 2

\* ------------------------------------------------- slot-holding claims ----
\* Positions of a call inside the attempt loop of executeWithRPCRotation.
InAttempts == {"admitted", "rpcWait", "rpcReady", "inOp"}

\* Calls of chain ch between taking their slot and releasing it.
Holding(ch) ==
    {c \in Calls : calls[c].chain = ch
                   /\ calls[c].pc \in InAttempts \cup {"chainWait", "resolved", "rejected"}}

\* C11: a call holds exactly one slot and takes exactly one chain-bucket
\* token whatever the number of its attempts: activeRequests counts the calls
\* between admission and completion, a call's attempts leave the chain's
\* queue (slots and bucket) unchanged, and the step that ends a call's chain
\* token wait, or admits it without one, takes one token from the bucket.
C11_OneSlotPerCall ==
    /\ [](\A ch \in Created :
             queues[ch].activeRequests = Cardinality(Holding(ch)))
    /\ [][\A c \in Calls :
            /\ (/\ calls[c].pc \in InAttempts
                /\ calls'[c].pc \in InAttempts \cup {"resolved", "rejected"}
                /\ calls'[c] # calls[c])
                  => queues' = queues
            /\ (calls[c].pc \in {"new", "queued", "chainWait"}
                    /\ calls'[c].pc = "admitted")
                  => LET ch == calls'[c].chain
                         before == IF calls[c].pc = "new"
                                   THEN GetQueue(ch, now) ELSE queues[ch]
                     IN  queues'[ch].tokenBucket.tokens
                             = Refill(before.tokenBucket, now).tokens - TokUnit]_vars

\* C11 witness: a call is in its second attempt and its chain still counts
\* one slot for it.
C11_Witness ==
    \E c \in Calls :
        /\ calls[c].pc = "inOp"
        /\ Len(calls[c].tried) = 2
        /\ queues[calls[c].chain].activeRequests = 1
        /\ Holding(calls[c].chain) = {c}

\* ---------------------------------------------------- outcome claims ----
\* C13: a call rejects if and only if all its attempts failed: a rejected
\* call made and failed maxAttempts attempts and carries the aggregated
\* error only; a resolved call returns the result of its last attempt, which
\* succeeded, with no error, its earlier failures being absorbed; a call
\* still in the loop has not failed all its attempts.
C13_RejectsIffAllFailed ==
    \A c \in Calls :
        LET call == calls[c] IN
        /\ call.pc = "rejected" =>
              /\ Len(call.thrown) = call.maxAttempts
              /\ Len(call.tried) = call.maxAttempts
              /\ call.result = 0
              /\ call.error = ExhaustionError(chainConfigs[call.chain], call.lastError)
        /\ call.pc = "resolved" =>
              /\ Len(call.tried) = Len(call.thrown) + 1
              /\ Len(call.tried) <= call.maxAttempts
              /\ call.result = call.tried[Len(call.tried)]
              /\ health[call.chain][call.result] # "down"
              /\ call.error = NoError
        /\ call.pc \in {"rpcWait", "rpcReady", "inOp"} =>
              /\ Len(call.thrown) < call.maxAttempts
              /\ call.error = NoError
              /\ call.result = 0

\* C13 witness: a call resolved with the result of its second attempt after
\* its first attempt failed.
C13_Witness ==
    \E c \in Calls :
        /\ calls[c].pc = "resolved"
        /\ Len(calls[c].thrown) = 1
        /\ calls[c].result = calls[c].tried[2]
        /\ calls[c].error = NoError

\* C14: every admitted operation releases its slot exactly once when it
\* completes, having succeeded or failed, started at once or dequeued: the
\* completing step lowers activeRequests by 1 (and may raise it again for
\* the one request it dequeues), nothing else lowers it, a completed call
\* takes no further step; and once every submitted call has completed,
\* activeRequests is 0 and the pending list is empty.
C14_SlotReleasedOnce ==
    /\ []((\A c \in Calls : calls[c].pc \in {"new", "done"}) =>
             \A ch \in Created :
                 queues[ch].activeRequests = 0 /\ queues[ch].queue = <<>>)
    /\ [][/\ \A c \in Calls :
                /\ (calls[c].pc \in {"resolved", "rejected"} /\ calls'[c] # calls[c])
                      => LET q == queues[calls[c].chain]
                             r == queues'[calls[c].chain]
                             dequeued == Len(q.queue) - Len(r.queue)
                         IN  /\ calls'[c].pc = "done"
                             /\ dequeued \in {0, 1}
                             /\ r.activeRequests = q.activeRequests - 1 + dequeued
                /\ calls[c].pc = "done" => calls'[c] = calls[c]
          /\ \A ch \in Created :
                queues'[ch].activeRequests < queues[ch].activeRequests
                    => \E c \in Calls : /\ calls[c].chain = ch
                                        /\ calls[c].pc \in {"resolved", "rejected"}
                                        /\ calls'[c].pc = "done"]_vars

\* C14 witness: all the calls were admitted and have completed, one of them
\* rejected and one resolved, and no slot is held.
C14_Witness ==
    /\ \A c \in Calls : calls[c].pc = "done"
    /\ \E c \in Calls : calls[c].result = 0
    /\ \E c \in Calls : calls[c].result > 0
    /\ \E ch \in Created :
          /\ queues[ch].activeRequests = 0
          /\ queues[ch].queue = <<>>
          /\ Len(admitted[ch]) = MaxCalls

\* ------------------------------------------------- admission claims 2 ----
\* The number of times call c occurs in sequence s.
Occurrences(s, c) == Cardinality({i \in DOMAIN s : s[i] = c})

\* C19: admission never rejects or drops a call whatever the length of the
\* pending list: a submitted call is either started (once) or pending
\* (once), the step that submits it starts it or appends it at the tail, and
\* a call is not settled before its own operation has run.
C19_NeverDropped ==
    /\ [](\A c \in Calls : calls[c].pc # "new" =>
             LET ch == calls[c].chain IN
             /\ Occurrences(queues[ch].queue, c)
                    = (IF calls[c].pc = "queued" THEN 1 ELSE 0)
             /\ Occurrences(admitted[ch], c)
                    = (IF calls[c].pc = "queued" THEN 0 ELSE 1)
             /\ calls[c].pc \in {"queued", "chainWait", "admitted"} =>
                    /\ calls[c].error = NoError
                    /\ calls[c].result = 0
                    /\ calls[c].tried = <<>>)
    /\ [][\A c \in Calls :
            (calls[c].pc = "new" /\ calls'[c].pc # "new") =>
                LET ch == calls'[c].chain IN
                \/ /\ calls'[c].pc = "queued"
                   /\ queues'[ch].queue = Append(queues[ch].queue, c)
                \/ /\ calls'[c].pc \in {"chainWait", "admitted"}
                   /\ admitted'[ch] = Append(admitted[ch], c)]_vars

\* C19 witness: a call was appended behind another pending call and is
\* still pending, unsettled, with every slot taken.
C19_Witness ==
    \E c \in Calls :
        /\ calls[c].pc = "queued"
        /\ calls[c].queuedAs = MaxCalls - 1
        /\ Len(queues[calls[c].chain].queue) = MaxCalls - 1
        /\ queues[calls[c].chain].queue[MaxCalls - 1] = c

\* ---------------------------------------------------- selector claims ----
\* Call c takes a step that runs the selector: the first loop iteration
\* (from StartOperation) or the iteration after a failed attempt.
Selects(c) ==
    /\ calls[c].pc \in {"admitted", "inOp"}
    /\ calls'[c].pc \in {"rpcWait", "rpcReady"}

\* The chain's configuration as the selector finds it in that step: after
\* ensureChainConfig, or after the catch block's rotateToNextRPC.
BeforeSelection(c) ==
    IF calls[c].pc = "admitted"
    THEN EnsureChainConfig(calls[c].chain, now)
    ELSE RotateToNextRPC(chainConfigs[calls[c].chain])

\* The endpoints as selectBestRPC scores them (after its probe).
Scored(c) == SelectBestAvailableRPC(BeforeSelection(c), now).endpoints

\* No endpoint scores higher than the one at 0-based index i.
HighestScore(c, i) ==
    \A j \in DOMAIN Scored(c) : ~ScoreGreater(Scored(c)[j], Scored(c)[i + 1], now)

\* C16: the selector picks an endpoint with the highest score, and when the
\* endpoint at currentIndex is one of those with the highest score,
\* currentIndex is left unchanged.
C16_TiesKeepCurrent ==
    [][\A c \in Calls : Selects(c) =>
          LET chosen == chainConfigs'[calls[c].chain].currentIndex
              current == BeforeSelection(c).currentIndex
          IN  /\ HighestScore(c, chosen)
              /\ HighestScore(c, current) => chosen = current]_vars

\* The token count of endpoint i of configuration cfg once refilled to now.
TokensAt(cfg, i) == Refill(cfg.endpoints[i].tokenBucket, now).tokens

\* C17: the selector changes no endpoint's token count and no counter, so a
\* step that selects an endpoint and takes its token (or starts waiting for
\* it) leaves every other endpoint's bucket as it was, removes at most the
\* attempt's one token from the chosen endpoint's bucket, and leaves the
\* counters of every endpoint unchanged.
C17_SelectorIsPure ==
    [][\A c \in Calls : Selects(c) =>
          LET before == BeforeSelection(c)
              after == chainConfigs'[calls[c].chain]
              chosen == after.currentIndex + 1
          IN  \A i \in DOMAIN before.endpoints :
                /\ after.endpoints[i].failures = before.endpoints[i].failures
                /\ after.endpoints[i].totalRequests = before.endpoints[i].totalRequests
                /\ after.endpoints[i].successfulRequests
                       = before.endpoints[i].successfulRequests
                /\ after.endpoints[i].lastUsed = before.endpoints[i].lastUsed
                /\ i # chosen => TokensAt(after, i) = TokensAt(before, i)
                /\ i = chosen =>
                       TokensAt(after, i) =
                           IF calls'[c].pc = "rpcReady"
                           THEN TokensAt(before, i) - TokUnit
                           ELSE TokensAt(before, i)]_vars

\* ---------------------------------------------------- rotation claims 2 ----
\* Call c takes the step in which one of its attempts fails.
AttemptFails(c) ==
    /\ calls[c].pc = "inOp"
    /\ Len(calls'[c].thrown) = Len(calls[c].thrown) + 1

\* The chain's configuration after the catch block of that step, before the
\* selector of the next iteration (if any) runs.
AfterCatch(c) ==
    IF calls'[c].pc = "rejected"
    THEN chainConfigs'[calls[c].chain]
    ELSE RotateToNextRPC(chainConfigs[calls[c].chain])

\* C18: every failed attempt, the final one and those on a single-endpoint
\* chain included, adds exactly 1 to the failure count of the endpoint the
\* attempt ran against and leaves the other counts unchanged; when the
\* pointer is rotated it moves from index i to (i + 1) mod N.
C18_FailureCounted ==
    [][\A c \in Calls : AttemptFails(c) =>
          LET before == chainConfigs[calls[c].chain]
              n == Len(before.endpoints)
          IN  /\ \A i \in DOMAIN before.endpoints :
                    AfterCatch(c).endpoints[i].failures =
                        before.endpoints[i].failures
                            + (IF before.endpoints[i].url = calls[c].rpcUrl
                               THEN 1 ELSE 0)
              /\ AfterCatch(c).currentIndex # before.currentIndex =>
                    AfterCatch(c).currentIndex = (before.currentIndex + 1) % n]_vars

\* --------------------------------------------- fair specification ----
\* The settings of the runs checked for progress: one slot, so that calls
\* queue behind each other, one token per bucket, so that calls wait for
\* tokens, and every number of endpoints.
InitFair ==
    /\ Init
    /\ \A ch \in Chains : config[ch].maxConcurrent = 1 /\ config[ch].capacity = 1

\* A continuation of call c is ready to run: the timer it is suspended on
\* has fired, or the promise it awaits is settled (a token taken at once,
\* an invoked operation that settles, a settled operation whose finally is
\* due).  These are the guards of ChainTokenWake, StartOperation,
\* RpcTokenWake, InvokeOperation, OperationSucceeds / OperationFails and
\* RequestComplete.
Ready(c) ==
    \/ calls[c].pc \in {"admitted", "rpcReady", "inOp", "resolved", "rejected"}
    \/ calls[c].pc \in {"chainWait", "rpcWait"} /\ now >= calls[c].wakeAt

\* The event loop does not idle while a continuation is ready, and the
\* clock advances: no call stays ready for ever without its step being
\* taken (weak fairness of each call's step, which disables itself or moves
\* the call on).  Nothing obliges a caller to make a call.
Fairness ==
    /\ WF_vars(Tick)
    /\ \A c \in Calls : []<>(~Ready(c))

FairSpec == InitFair /\ [][Next]_vars /\ Fairness

\* A token wait of call c that does not end: the clock of a run stops at
\* StartTime + MaxTime, and the timer c is suspended on is due later.
WaitNeverEnds(c) ==
    /\ calls[c].pc \in {"chainWait", "rpcWait"}
    /\ calls[c].wakeAt > StartTime + MaxTime

\* C12: a call makes at most N attempts, N the number of endpoints of its
\* chain; once an attempt has succeeded the operation is not invoked again
\* for that call; and every admitted call terminates, resolved or rejected,
\* unless one of its token waits does not end.
C12_TerminatesWithinN ==
    /\ [](\A c \in Calls : calls[c].pc \notin {"new", "queued"} =>
             /\ Len(calls[c].tried) <= config[calls[c].chain].nUrls
             /\ calls[c].attempt <= config[calls[c].chain].nUrls)
    /\ [][\A c \in Calls :
            calls[c].pc = "resolved" =>
                /\ calls'[c].pc \in {"resolved", "done"}
                /\ calls'[c].pc = "resolved" => calls'[c].tried = calls[c].tried
                /\ chainConfigs' = chainConfigs \/ calls'[c] = calls[c]]_vars
    /\ \A c \in Calls :
          (calls[c].pc \in {"chainWait", "admitted"})
              ~> (calls[c].pc \in {"resolved", "rejected", "done"}
                    \/ WaitNeverEnds(c))

\* C12 witness: a call has terminated after N = 2 attempts, the last of
\* which had to wait for its endpoint's token.
C12_Witness ==
    \E c \in Calls :
        /\ calls[c].pc \in {"resolved", "rejected"}
        /\ config[calls[c].chain].nUrls = 2
        /\ Len(calls[c].tried) = 2
        /\ calls[c].attempt >= 1
        /\ config[calls[c].chain].maxConcurrent = 1
        /\ config[calls[c].chain].capacity = 1


\* A token wait on the chain of call c that does not end: of c itself once
\* it is dequeued, or of the call that holds the slot c is queued behind.
ChainWaitNeverEnds(c) ==
    \E d \in Calls : calls[d].chain = calls[c].chain /\ WaitNeverEnds(d)

\* The operation of call c has been invoked: it is running, or it has
\* settled.
Invoked(c) == calls[c].pc \in {"inOp", "resolved", "rejected", "done"}

\* C15: every queued call is eventually dequeued and its operation invoked,
\* provided the operations complete and the token waits on its chain end.
C15_QueuedEventuallyInvoked ==
    \A c \in Calls :
        (calls[c].pc = "queued") ~> (Invoked(c) \/ ChainWaitNeverEnds(c))

\* C15 witness: the operation of a call that had been queued is running
\* while no token wait on its chain is endless.
C15_Witness ==
    \E c \in Calls :
        /\ calls[c].queuedAs > 0
        /\ calls[c].pc = "inOp"
        /\ ~ChainWaitNeverEnds(c)


\* ------------------------------------------ two-chain specification ----
\* The settings of the runs with calls on both chains: each chain has its
\* own number of endpoints (RPC_URL_<id>), one slot so that calls queue, a
\* bucket capacity of one token so that calls wait, and endpoints that may
\* fail or succeed.
ChainSettings == {cf \in Configs : cf.maxConcurrent = 1 /\ cf.capacity = 1}

InitChains ==
    /\ now = StartTime
    /\ bucket = NewBucket(1, RefillRate, StartTime)
    /\ waiters = [w \in Waiters |-> Idle]
    /\ ret = NoRet
    /\ config \in [Chains -> ChainSettings]
    /\ health = [ch \in Chains |-> [i \in 1..config[ch].nUrls |-> "flaky"]]
    /\ queues = [ch \in Chains |-> NoQueue]
    /\ chainConfigs = [ch \in Chains |-> NoChainConfig]
    /\ calls = [c \in Calls |-> NewCall]
    /\ admitted = [ch \in Chains |-> <<>>]

\* As Next, with each call made on either chain.
NextChains ==
    \/ \E c \in Calls, ch \in Chains : Submit(c, ch)
    \/ \E c \in Calls : ChainTokenWake(c)
    \/ \E c \in Calls : StartOperation(c)
    \/ \E c \in Calls : RpcTokenWake(c)
    \/ \E c \in Calls : InvokeOperation(c)
    \/ \E c \in Calls : OperationSucceeds(c)
    \/ \E c \in Calls, msg \in Msgs : OperationFails(c, msg)
    \/ \E c \in Calls : RequestComplete(c)
    \/ Tick

SpecChains == InitChains /\ [][NextChains]_vars

\* The chains whose calls take a step: the chain of every call whose record
\* the step changes.
SteppingChains == {calls'[c].chain : c \in {d \in Calls : calls'[d] # calls[d]}}

\* C20: a step of a call on chain X (admission, queueing, selection, token
\* wait, success, failure, rotation, reset) leaves the request queue of
\* every other chain Y (activeRequests, pending list, chain bucket) and its
\* endpoints (buckets, counters, currentIndex) unchanged.
C20_ChainsIndependent ==
    [][\A y \in Chains :
          (SteppingChains # {} /\ y \notin SteppingChains) =>
              /\ queues'[y] = queues[y]
              /\ chainConfigs'[y] = chainConfigs[y]
              /\ admitted'[y] = admitted[y]]_vars

\* C20 witness: both chains have their queue and their endpoints, a call is
\* queued on one chain and the operation of a call on the other chain has
\* failed on one endpoint and is running on the next.
C20_Witness ==
    \E c, d \in Calls :
        /\ calls[c].chain # calls[d].chain
        /\ calls[c].pc = "queued"
        /\ calls[d].pc = "inOp"
        /\ calls[d].attempt = 1
        /\ \A ch \in Chains : queues[ch] # NoQueue /\ chainConfigs[ch].created


\* --------------------------------------------------- registry claims ----
\* The step is a call made on chain ch (executeThrottled -> getQueue).
References(c, ch) == calls[c].pc = "new" /\ calls'[c].pc # "new" /\ calls'[c].chain = ch

\* The step starts the wrapped operation of a call of chain ch (getRPCCount
\* -> ensureChainConfig).
Starts(c, ch) == calls[c].pc = "admitted" /\ calls'[c].pc # "admitted" /\ calls[c].chain = ch

\* C21: a chain's request queue and endpoint set are created by the first
\* call that references the chain and stay the same objects: they exist
\* only once a call was made on the chain, they are never replaced (limit,
\* capacity, number of endpoints and the counters only grow), and a later
\* call that references the chain finds activeRequests, the pending list,
\* the bucket tokens and the endpoint counters as they were (it adds itself
\* to the active calls or to the pending list, nothing else changes).
C21_CreatedOnceNeverReset ==
    /\ [](\A ch \in Chains :
            /\ queues[ch].created =>
                  \E c \in Calls : calls[c].pc # "new" /\ calls[c].chain = ch
            /\ chainConfigs[ch].created => queues[ch].created)
    /\ [][\A ch \in Chains :
            /\ queues[ch].created =>
                  /\ queues'[ch].created
                  /\ queues'[ch].maxConcurrent = queues[ch].maxConcurrent
                  /\ queues'[ch].tokenBucket.capacity = queues[ch].tokenBucket.capacity
                  /\ queues'[ch].tokenBucket.lastRefill >= queues[ch].tokenBucket.lastRefill
            /\ chainConfigs[ch].created =>
                  /\ chainConfigs'[ch].created
                  /\ Len(chainConfigs'[ch].endpoints) = Len(chainConfigs[ch].endpoints)
                  /\ \A i \in Endpoints(ch) :
                        LET old == chainConfigs[ch].endpoints[i]
                            new == chainConfigs'[ch].endpoints[i]
                        IN  /\ new.url = old.url
                            /\ new.totalRequests >= old.totalRequests
                            /\ new.successfulRequests >= old.successfulRequests
                            /\ new.lastUsed >= old.lastUsed
                            /\ new.tokenBucket.lastRefill >= old.tokenBucket.lastRefill
            /\ \A c \in Calls :
                  /\ References(c, ch) => queues'[ch].created
                  /\ (References(c, ch) /\ queues[ch].created) =>
                        /\ \/ /\ queues'[ch].activeRequests = queues[ch].activeRequests + 1
                              /\ queues'[ch].queue = queues[ch].queue
                           \/ /\ queues'[ch].activeRequests = queues[ch].activeRequests
                              /\ queues'[ch].queue = Append(queues[ch].queue, c)
                        /\ queues'[ch].tokenBucket.tokens
                              <= Refill(queues[ch].tokenBucket, now).tokens
                  /\ Starts(c, ch) => chainConfigs'[ch].created
                  /\ (Starts(c, ch) /\ chainConfigs[ch].created) =>
                        \A i \in Endpoints(ch) :
                            LET old == chainConfigs[ch].endpoints[i]
                                new == chainConfigs'[ch].endpoints[i]
                            IN  /\ new.failures = old.failures
                                /\ new.totalRequests = old.totalRequests
                                /\ new.successfulRequests = old.successfulRequests
                                /\ new.lastUsed = old.lastUsed
                                /\ new.tokenBucket.tokens
                                      <= Refill(old.tokenBucket, now).tokens]_vars

\* C21 witness: on one chain a second call was made while the first held
\* the slot (it found the queue and is pending), and a call has started its
\* operation on endpoints that earlier calls had already used.
C21_Witness ==
    \E ch \in Chains, c \in Calls :
        /\ calls[c].chain = ch
        /\ calls[c].pc = "inOp"
        /\ Len(calls[c].tried) = 1
        /\ calls[c].queuedAs > 0
        /\ Len(queues[ch].queue) > 0
        /\ \E i \in Endpoints(ch) : chainConfigs[ch].endpoints[i].totalRequests >= 3


\* ------------------------------------------ configuration resolution ----
\* Longest text of a numeric setting (RPC_MAX_CONCURRENT, ...), in characters.
MaxText == 2
\* Longest text of an endpoint-list setting (RPC_URL, ...), in characters.
MaxUrlText == 3

\* parseDefaultMaxConcurrent: the built-in default.
DefaultMaxConcurrent == 15
\* createForChain / createForRPC: the built-in burst capacity.
DefaultCapacity == 50

\* The characters of a numeric setting: digits, a sign, white space, a
\* character that is none of these, and "D", which stands for a run of 309
\* digits 9 (a number beyond Number.MAX_VALUE).
NumChars == {"0", "2", "D", "-", " ", "x"}
Digits == {"0", "2", "D"}
\* The characters of an endpoint list: "u" a character of a URL, the
\* separator and white space.
UrlChars == {"u", ",", " "}

RECURSIVE TextsUpTo(_, _)
TextsUpTo(chars, n) ==
    IF n = 0 THEN {<<>>}
    ELSE LET shorter == TextsUpTo(chars, n - 1)
         IN  shorter \cup {Append(s, ch) : s \in shorter, ch \in chars}

\* A value of process.env: undefined, or a string.
Missing == [set |-> FALSE, text |-> <<>>]
Text(s) == [set |-> TRUE, text |-> s]
NumTexts == {Missing} \cup {Text(s) : s \in TextsUpTo(NumChars, MaxText)}
UrlTexts == {Missing} \cup {Text(s) : s \in TextsUpTo(UrlChars, MaxUrlText)}

\* !value: undefined and the empty string are falsy.
Falsy(value) == ~value.set \/ value.text = <<>>

\* JavaScript numbers: NaN, a finite integer, or an infinity of sign v.
NaN == [kind |-> "nan", v |-> 0]
Num(n) == [kind |-> "num", v |-> n]
Infinite(sign) == [kind |-> "inf", v |-> sign]

IsNaN(n) == n.kind = "nan"
\* n < 1
BelowOne(n) ==
    \/ n.kind = "num" /\ n.v < 1
    \/ n.kind = "inf" /\ n.v < 0

\* String.prototype.trim and its left half (parseInt skips leading white
\* space).
RECURSIVE TrimLeft(_)
TrimLeft(s) ==
    IF s # <<>> /\ Head(s) = " " THEN TrimLeft(Tail(s)) ELSE s

RECURSIVE TrimRight(_)
TrimRight(s) ==
    IF s # <<>> /\ s[Len(s)] = " " THEN TrimRight(SubSeq(s, 1, Len(s) - 1)) ELSE s

Trim(s) == TrimRight(TrimLeft(s))

\* The longest prefix of s made of digits.
RECURSIVE DigitPrefix(_)
DigitPrefix(s) ==
    IF s # <<>> /\ Head(s) \in Digits
    THEN <<Head(s)>> \o DigitPrefix(Tail(s))
    ELSE <<>>

\* The value of a string of the digits "0" and "2" in radix 10.
RECURSIVE Decimal(_)
Decimal(ds) ==
    IF ds = <<>> THEN 0
    ELSE 10 * Decimal(SubSeq(ds, 1, Len(ds) - 1))
            + (IF ds[Len(ds)] = "2" THEN 2 ELSE 0)

\* parseInt(text, 10): leading white space skipped, an optional sign, then
\* the longest run of digits; NaN without a digit; what follows the digits
\* is ignored; a value beyond the largest number is an infinity.
ParseInt(s) ==
    LET t == TrimLeft(s)
        negative == t # <<>> /\ Head(t) = "-"
        sign == IF negative THEN -1 ELSE 1
        ds == DigitPrefix(IF negative THEN Tail(t) ELSE t)
    IN  IF ds = <<>> THEN NaN
        ELSE IF \E i \in DOMAIN ds : ds[i] = "D" THEN Infinite(sign)
        ELSE Num(sign * Decimal(ds))

\* The names of process.env that are read; chain 0 stands for the name
\* without a chain suffix.
EnvNames == {"RPC_MAX_CONCURRENT", "RPC_RATE_CAPACITY", "RPC_RATE_LIMIT", "RPC_URL"}
EnvKeys == EnvNames \X ({0} \cup Chains)

Env == config.env

\* TokenBucketFactory.parseEnvInt
ParseEnvInt(key, defaultValue) ==
    IF Falsy(Env[key]) THEN defaultValue
    ELSE LET parsed == ParseInt(Env[key].text)
         IN  IF IsNaN(parsed) \/ BelowOne(parsed) THEN defaultValue ELSE parsed

\* createForChain and createForRPC: capacity and refill rate of a bucket of
\* chain ch.
EnvCapacity(ch) ==
    ParseEnvInt(<<"RPC_RATE_CAPACITY", ch>>,
                ParseEnvInt(<<"RPC_RATE_CAPACITY", 0>>, Num(DefaultCapacity)))

EnvRate(ch) ==
    ParseEnvInt(<<"RPC_RATE_LIMIT", ch>>,
                ParseEnvInt(<<"RPC_RATE_LIMIT", 0>>, Num(RefillRate)))

\* parseDefaultMaxConcurrent
ParseDefaultMaxConcurrent ==
    LET value == Env[<<"RPC_MAX_CONCURRENT", 0>>] IN
    IF Falsy(value) THEN Num(DefaultMaxConcurrent)
    ELSE LET parsed == ParseInt(value.text)
         IN  IF IsNaN(parsed) \/ BelowOne(parsed)
             THEN Num(DefaultMaxConcurrent) ELSE parsed

\* getMaxConcurrentForChain
GetMaxConcurrentForChain(ch) ==
    LET value == Env[<<"RPC_MAX_CONCURRENT", ch>>] IN
    IF Falsy(value) THEN ParseDefaultMaxConcurrent
    ELSE LET parsed == ParseInt(value.text)
         IN  IF IsNaN(parsed) \/ BelowOne(parsed)
             THEN ParseDefaultMaxConcurrent ELSE parsed

\* envValue.split(","): the pieces between the separators.
RECURSIVE Split(_)
Split(s) ==
    IF \A i \in DOMAIN s : s[i] # "," THEN <<s>>
    ELSE LET k == CHOOSE i \in DOMAIN s :
                     s[i] = "," /\ \A j \in 1..(i - 1) : s[j] # ","
         IN  <<SubSeq(s, 1, k - 1)>> \o Split(SubSeq(s, k + 1, Len(s)))

\* filter(url => url.length > 0)
RECURSIVE NonEmpty(_)
NonEmpty(urls) ==
    IF urls = <<>> THEN <<>>
    ELSE (IF Head(urls) # <<>> THEN <<Head(urls)>> ELSE <<>>)
            \o NonEmpty(Tail(urls))

\* parseRPCUrls
ParseRPCUrls(value) ==
    IF Falsy(value) \/ Trim(value.text) = <<>> THEN <<>>
    ELSE LET pieces == Split(value.text)
         IN  NonEmpty([i \in DOMAIN pieces |-> Trim(pieces[i])])

\* "https://eth.drpc.org", the last fallback of getRPCUrlsForChain.
GenericUrl == <<"e">>

\* getRPCUrlsForChain
GetRPCUrlsForChain(ch) ==
    LET parsedUrls == ParseRPCUrls(Env[<<"RPC_URL", ch>>])
        defaultUrls == config.defaultRPCs[ch]
        genericDefault == Env[<<"RPC_URL", 0>>]
    IN  IF Len(parsedUrls) > 0 THEN parsedUrls
        ELSE IF Len(defaultUrls) > 0 THEN defaultUrls
        ELSE IF ~Falsy(genericDefault) THEN ParseRPCUrls(genericDefault)
        ELSE <<GenericUrl>>

\* The environment of a run: one setting (name) is given a text without a
\* chain suffix and a text for the first chain (the settings are read
\* independently of each other), and the chains in known are those with a
\* built-in endpoint list (defaultRPCs).
Environment(name, general, forChain, known) ==
    [env |-> [k \in EnvKeys |->
                  IF k = <<name, 0>> THEN general
                  ELSE IF k = <<name, 1>> THEN forChain
                  ELSE Missing],
     defaultRPCs |-> [ch \in Chains |-> IF ch \in known THEN <<<<"d">>>> ELSE <<>>]]

NoEndpointSet == [created |-> FALSE, urls |-> <<>>, capacity |-> NaN, refillRate |-> NaN]
NoEnvQueue == [created |-> FALSE, maxConcurrent |-> NaN, capacity |-> NaN, refillRate |-> NaN]

InitEnv ==
    /\ now = StartTime
    /\ bucket = NewBucket(1, RefillRate, StartTime)
    /\ waiters = [w \in Waiters |-> Idle]
    /\ ret = NoRet
    /\ \/ \E name \in EnvNames \ {"RPC_URL"} :
             \E general \in NumTexts, forChain \in NumTexts :
                config = Environment(name, general, forChain, {})
       \/ \E general \in UrlTexts, forChain \in UrlTexts, known \in SUBSET Chains :
             config = Environment("RPC_URL", general, forChain, known)
    /\ health = <<>>
    /\ queues = [ch \in Chains |-> NoEnvQueue]
    /\ chainConfigs = [ch \in Chains |-> NoEndpointSet]
    /\ calls = <<>>
    /\ admitted = <<>>

\* getQueue for a chain without a queue: the limit and the chain bucket's
\* capacity and rate as they are resolved.
EnvGetQueue(ch) ==
    /\ ~queues[ch].created
    /\ queues' = [queues EXCEPT ![ch] =
            [created |-> TRUE, maxConcurrent |-> GetMaxConcurrentForChain(ch),
             capacity |-> EnvCapacity(ch), refillRate |-> EnvRate(ch)]]
    /\ UNCHANGED <<now, bucketVars, config, health, chainConfigs, calls, admitted>>

\* ensureChainConfig for a chain without endpoints: the URLs and the
\* endpoint buckets' capacity and rate as they are resolved.
EnvEnsureChainConfig(ch) ==
    /\ ~chainConfigs[ch].created
    /\ chainConfigs' = [chainConfigs EXCEPT ![ch] =
            [created |-> TRUE, urls |-> GetRPCUrlsForChain(ch),
             capacity |-> EnvCapacity(ch), refillRate |-> EnvRate(ch)]]
    /\ UNCHANGED <<now, bucketVars, config, health, queues, calls, admitted>>

NextEnv ==
    \/ \E ch \in Chains : EnvGetQueue(ch)
    \/ \E ch \in Chains : EnvEnsureChainConfig(ch)

SpecEnv == InitEnv /\ [][NextEnv]_vars


\* A value the specification allows for a limit, a capacity or a rate.
IntegerAtLeastOne(n) == n.kind = "num" /\ n.v >= 1

\* An override that is missing, not a number, zero or negative.
InvalidOverride(value) ==
    \/ Falsy(value)
    \/ IsNaN(ParseInt(value.text))
    \/ BelowOne(ParseInt(value.text))

\* What setting name resolves to for chain ch by the layers the
\* specification gives: the chain's override, else the general value, else
\* the built-in default.
Layered(name, ch, builtIn) ==
    IF ~InvalidOverride(Env[<<name, ch>>]) THEN ParseInt(Env[<<name, ch>>].text)
    ELSE IF ~InvalidOverride(Env[<<name, 0>>]) THEN ParseInt(Env[<<name, 0>>].text)
    ELSE Num(builtIn)

\* C22: whatever the texts of the numeric settings, the limit, the capacity
\* and the refill rate a queue or an endpoint set is created with are
\* integers of at least 1, an invalid override of the chain falling back to
\* the general value and an invalid general value to the built-in default.
C22_ResolvedIntegersAtLeastOne ==
    \A ch \in Chains :
        /\ queues[ch].created =>
              /\ IntegerAtLeastOne(queues[ch].maxConcurrent)
              /\ IntegerAtLeastOne(queues[ch].capacity)
              /\ IntegerAtLeastOne(queues[ch].refillRate)
              /\ queues[ch].maxConcurrent
                    = Layered("RPC_MAX_CONCURRENT", ch, DefaultMaxConcurrent)
              /\ queues[ch].capacity = Layered("RPC_RATE_CAPACITY", ch, DefaultCapacity)
              /\ queues[ch].refillRate = Layered("RPC_RATE_LIMIT", ch, RefillRate)
        /\ chainConfigs[ch].created =>
              /\ IntegerAtLeastOne(chainConfigs[ch].capacity)
              /\ IntegerAtLeastOne(chainConfigs[ch].refillRate)
              /\ chainConfigs[ch].capacity = Layered("RPC_RATE_CAPACITY", ch, DefaultCapacity)
              /\ chainConfigs[ch].refillRate = Layered("RPC_RATE_LIMIT", ch, RefillRate)


\* ------------------------------------------------ bucket upper bound ----
\* C23: the tokens of a bucket never exceed its capacity, after any
\* sequence of tryConsume, waitForToken, getState and reset and whatever
\* time passed between two calls.
C23_TokensAtMostCapacity == bucket.tokens <= bucket.capacity

\* C23 witness: getState found a bucket that was not full after more time
\* than it takes to fill it, and left it exactly full.
C23_Witness ==
    /\ ret.op = "getState"
    /\ ret.before < bucket.capacity
    /\ ret.before + (ret.elapsed * RefillRate * TokUnit) \div TicksPerSecond
          > bucket.capacity
    /\ bucket.tokens = bucket.capacity


\* ---------------------------------------------------- counter claims ----
\* The step records a request of call c (recordRequest before the
\* operation, or after it resolved) or handles the failure of its operation
\* (the catch block).
Records(c) ==
    \/ calls[c].pc = "rpcReady" /\ calls'[c].pc = "inOp"
    \/ calls[c].pc = "inOp" /\ calls'[c] # calls[c]

\* C24: the counter updates of an attempt go to the endpoint the attempt
\* runs against (the one its client was built on), also when other calls of
\* the chain move currentIndex meanwhile: a step that records a request or
\* a failure of call c leaves totalRequests, successfulRequests and lastUsed
\* of every other endpoint unchanged and counts no failure against them.
C24_CountersOnAttemptedEndpoint ==
    [][\A c \in Calls :
          Records(c) =>
              \A i \in Endpoints(calls[c].chain) :
                  i # calls[c].rpcUrl =>
                      LET old == chainConfigs[calls[c].chain].endpoints[i]
                          new == chainConfigs'[calls[c].chain].endpoints[i]
                      IN  /\ new.totalRequests = old.totalRequests
                          /\ new.successfulRequests = old.successfulRequests
                          /\ new.lastUsed = old.lastUsed
                          /\ new.failures <= old.failures]_vars


\* ------------------------------------------------------ order claims ----
\* Call c is at position p after the step and was not before it.
Enters(c, p) == calls'[c].pc = p /\ calls[c].pc # p

\* C25: in every attempt the endpoint is selected, then its token waited
\* for, then the operation invoked, and nothing of a call's operation runs
\* before the call holds a slot and a token of the chain bucket: the
\* operation is invoked only from the state in which the endpoint's token
\* wait is over; that state is entered only by the selection step (no wait
\* needed) or from the wait the selection step started; the selection step
\* is taken only by a call that starts its operation or whose previous
\* attempt failed; the operation starts only for a call that has just taken
\* a slot with a whole token in the chain bucket, or whose chain token wait
\* is over; and every call at or past that point is among the chain's
\* admitted calls and counted in activeRequests.
C25_SelectWaitInvoke ==
    /\ [](\A c \in Calls :
            calls[c].pc \in InAttempts \cup {"chainWait", "resolved", "rejected"} =>
                /\ \E k \in DOMAIN admitted[calls[c].chain] :
                      admitted[calls[c].chain][k] = c
                /\ queues[calls[c].chain].activeRequests >= 1)
    /\ [][\A c \in Calls :
            /\ Enters(c, "inOp") => calls[c].pc = "rpcReady"
            /\ Enters(c, "rpcReady") => calls[c].pc \in {"rpcWait", "admitted", "inOp"}
            /\ Enters(c, "rpcWait") => calls[c].pc \in {"admitted", "inOp"}
            /\ (calls[c].pc = "rpcWait" /\ calls'[c] # calls[c]) =>
                  /\ calls'[c].pc = "rpcReady"
                  /\ calls'[c].rpcUrl = calls[c].rpcUrl
                  /\ now >= calls[c].wakeAt
            /\ Enters(c, "admitted") =>
                  \/ calls[c].pc = "chainWait" /\ now >= calls[c].wakeAt
                  \/ /\ calls[c].pc = "new"
                     /\ Refill(GetQueue(calls'[c].chain, now).tokenBucket, now).tokens
                           >= TokUnit
                  \/ /\ calls[c].pc = "queued"
                     /\ Refill(queues[calls[c].chain].tokenBucket, now).tokens
                           >= TokUnit]_vars

\* C25 witness: a call that had been queued is running its second attempt:
\* it was dequeued, took the chain token, selected, waited and invoked
\* twice.
C25_Witness ==
    \E c \in Calls :
        /\ calls[c].pc = "inOp"
        /\ calls[c].queuedAs > 0
        /\ calls[c].attempt = 1
        /\ Len(calls[c].tried) = 2
        /\ \E k \in DOMAIN admitted[calls[c].chain] : admitted[calls[c].chain][k] = c


\* The tokens of endpoint i of call c's chain before and after the step.
EndpointTokens(c, i) == chainConfigs[calls[c].chain].endpoints[i].tokenBucket.tokens
EndpointTokensAfter(c, i) == chainConfigs'[calls[c].chain].endpoints[i].tokenBucket.tokens

\* C26: the endpoint whose bucket an attempt waits on and takes its token
\* from is the endpoint whose URL the attempt's client is built with,
\* whatever other calls of the chain do to currentIndex meanwhile: from the
\* selection to the end of the operation the bucket waited on belongs to
\* the attempt's URL; the selection step that needs no wait takes the token
\* from that endpoint's bucket and from no other (beyond the selector's own
\* probes); the step that ends the wait takes the token from that bucket
\* and leaves the others alone; and the client is built with that URL.
C26_TokenOfClientEndpoint ==
    /\ [](\A c \in Calls :
            calls[c].pc \in {"rpcWait", "rpcReady", "inOp"} =>
                chainConfigs[calls[c].chain].endpoints[calls[c].waitOn + 1].url
                    = calls[c].rpcUrl)
    /\ [][\A c \in Calls :
            /\ (calls[c].pc \in {"admitted", "inOp"}
                    /\ calls'[c].pc \in {"rpcWait", "rpcReady"}) =>
                  \A i \in DOMAIN chainConfigs'[calls[c].chain].endpoints :
                      LET old == IF chainConfigs[calls[c].chain].created
                                 THEN chainConfigs[calls[c].chain].endpoints[i]
                                 ELSE NewChainConfig(calls[c].chain, now).endpoints[i]
                      IN  EndpointTokensAfter(c, i)
                            = Probe(old, now).tokenBucket.tokens
                                - (IF i = calls'[c].rpcUrl /\ calls'[c].pc = "rpcReady"
                                   THEN TokUnit ELSE 0)
            /\ (calls[c].pc = "rpcWait" /\ calls'[c].pc = "rpcReady") =>
                  \A i \in Endpoints(calls[c].chain) :
                      EndpointTokensAfter(c, i)
                        = IF i = calls[c].rpcUrl
                          THEN Refill(chainConfigs[calls[c].chain].endpoints[i].tokenBucket,
                                      now).tokens - TokUnit
                          ELSE EndpointTokens(c, i)
            /\ Enters(c, "inOp") =>
                  calls'[c].tried = Append(calls[c].tried, calls[c].rpcUrl)]_vars

\* C26 witness: a call is suspended on the bucket of the second endpoint,
\* the URL its client will be built with, while another call of the chain
\* has moved currentIndex back to the first endpoint.
C26_Witness ==
    \E c, d \in Calls :
        /\ c # d
        /\ calls[c].chain = calls[d].chain
        /\ calls[c].pc = "rpcWait"
        /\ calls[c].rpcUrl = 2
        /\ calls[c].waitOn = 1
        /\ calls[d].pc \in {"rpcWait", "rpcReady", "inOp"}
        /\ calls[d].rpcUrl = 1
        /\ chainConfigs[calls[c].chain].currentIndex = 0


\* The requests, and the successful requests, recorded on the endpoints
\* eps, all endpoints together.
RECURSIVE TotalRequests(_)
TotalRequests(eps) ==
    IF eps = <<>> THEN 0 ELSE Head(eps).totalRequests + TotalRequests(Tail(eps))

RECURSIVE SuccessfulRequests(_)
SuccessfulRequests(eps) ==
    IF eps = <<>> THEN 0
    ELSE Head(eps).successfulRequests + SuccessfulRequests(Tail(eps))

\* C27: an attempt adds exactly 1 to totalRequests, and a successful one
\* also exactly 1 to successfulRequests, so that totalRequests counts the
\* attempts: the step that invokes the operation adds 1 to the chain's
\* recorded requests and nothing to its successes; the step in which the
\* operation resolves adds 1 to the successes and nothing more to the
\* requests; the step in which it rejects adds to neither.
C27_OneRequestPerAttempt ==
    [][\A c \in Calls :
          LET before == chainConfigs[calls[c].chain].endpoints
              after == chainConfigs'[calls[c].chain].endpoints
          IN  /\ Enters(c, "inOp") =>
                    /\ TotalRequests(after) = TotalRequests(before) + 1
                    /\ SuccessfulRequests(after) = SuccessfulRequests(before)
              /\ (calls[c].pc = "inOp" /\ calls'[c].pc = "resolved") =>
                    /\ TotalRequests(after) = TotalRequests(before)
                    /\ SuccessfulRequests(after) = SuccessfulRequests(before) + 1
              /\ (calls[c].pc = "inOp" /\ calls'[c].pc \in {"rpcWait", "rpcReady", "rejected"}) =>
                    /\ TotalRequests(after) = TotalRequests(before)
                    /\ SuccessfulRequests(after) = SuccessfulRequests(before)]_vars


\* ---------------------------------------------------- pending claims ----
\* C28: while a chain has a pending request all its slots are taken, so
\* that a call made then is queued behind the pending ones and never
\* started at once.
C28_NoFreeSlotWhilePending ==
    /\ [](\A ch \in Created :
            Len(queues[ch].queue) > 0 =>
                queues[ch].activeRequests = queues[ch].maxConcurrent)
    /\ [][\A ch \in Created, c \in Calls :
            (References(c, ch) /\ Len(queues[ch].queue) > 0) =>
                /\ calls'[c].pc = "queued"
                /\ queues'[ch].queue = Append(queues[ch].queue, c)]_vars

\* C28 witness: a call has completed and handed its slot to the first
\* pending request; a later request is still pending and no slot is free.
C28_Witness ==
    \E ch \in Created, c \in Calls :
        /\ calls[c].pc = "done"
        /\ calls[c].chain = ch
        /\ Len(queues[ch].queue) > 0
        /\ queues[ch].activeRequests = queues[ch].maxConcurrent
        /\ \E d \in Calls : calls[d].queuedAs > 0 /\ calls[d].pc \in InAttempts


\* ------------------------------------------------- settlement claims ----
\* The step in which call c, holding a slot with its operation settled,
\* completes.
Settles(c) == calls[c].pc \in {"resolved", "rejected"} /\ calls'[c] # calls[c]

\* The outcome of call c's own operation: the URL its last attempt
\* succeeded on, or 0 with the aggregated error when it rejected.
OwnOutcome(c) ==
    IF calls[c].pc = "resolved" THEN calls[c].tried[Len(calls[c].tried)] ELSE 0

\* C29: a call that was queued is settled exactly once, with the outcome of
\* its own operation: its completing step is its only step after its
\* operation settled, hands over its own result (0 when it rejected) and
\* changes the result of no other call, and a completed call never changes
\* again; when its operation failed, the same step releases the slot and,
\* a request being pending, dequeues the first one and starts it in that
\* slot.
C29_QueuedSettledOnceWithOwnOutcome ==
    [][\A c \in Calls :
          /\ (calls[c].queuedAs > 0 /\ Settles(c)) =>
                /\ calls'[c].pc = "done"
                /\ calls'[c].result = OwnOutcome(c)
                /\ (calls[c].pc = "rejected") = (calls'[c].result = 0)
                /\ \A d \in Calls \ {c} : calls'[d].result = calls[d].result
          /\ calls[c].pc = "done" => calls'[c] = calls[c]
          /\ (calls[c].queuedAs > 0 /\ calls[c].pc = "rejected" /\ Settles(c)) =>
                LET ch == calls[c].chain
                    q == queues[ch]
                    r == queues'[ch]
                IN  IF Len(q.queue) > 0
                    THEN /\ r.queue = Tail(q.queue)
                         /\ r.activeRequests = q.activeRequests
                         /\ calls[Head(q.queue)].pc = "queued"
                         /\ calls'[Head(q.queue)].pc \in {"chainWait", "admitted"}
                    ELSE /\ r.queue = <<>>
                         /\ r.activeRequests = q.activeRequests - 1]_vars

\* C29 witness: on a chain with one slot and at least one endpoint, the
\* second call was queued, failed all its attempts and has completed with
\* no result, and the third call, queued behind it, has been started in the
\* slot it released.
C29_Witness ==
    /\ queues[1].created
    /\ queues[1].maxConcurrent = 1
    /\ Endpoints(1) # {}
    /\ calls[2].pc = "done"
    /\ calls[2].result = 0
    /\ calls[3].queuedAs = 2
    /\ calls[3].pc \in InAttempts \cup {"chainWait"}
    /\ queues[1].activeRequests = 1


\* --------------------------------------------------- endpoint claims ----
\* C30: whatever the per-chain list, the built-in list and the generic
\* RPC_URL are, the endpoint set created for a chain has at least one
\* endpoint.
C30_AtLeastOneEndpoint ==
    \A ch \in Chains :
        chainConfigs[ch].created => Len(chainConfigs[ch].urls) >= 1


\* --------------------------------------------------- pointer claims ----
\* C31: for every chain whose endpoint set exists, currentIndex is a valid
\* index into the endpoint list, 0 <= currentIndex < number of endpoints,
\* after any interleaving of selections and rotations.
C31_CurrentIndexInRange ==
    \A ch \in Chains :
        chainConfigs[ch].created =>
            /\ 0 <= chainConfigs[ch].currentIndex
            /\ chainConfigs[ch].currentIndex < Len(chainConfigs[ch].endpoints)


\* ------------------------------------------------- selector claims 2 ----
\* C32: token availability dominates the selection: when the selector runs
\* and at least one endpoint of the chain holds a whole token, the endpoint
\* it selects holds a whole token; an endpoint below one token is selected
\* only when every endpoint is below one token.
C32_TokenAvailabilityDominates ==
    [][\A c \in Calls : Selects(c) =>
          LET before == BeforeSelection(c)
              chosen == chainConfigs'[calls[c].chain].currentIndex + 1
          IN  (\E i \in DOMAIN before.endpoints : TokensAt(before, i) >= TokUnit)
                  => TokensAt(before, chosen) >= TokUnit]_vars


\* --------------------------------------------------- counter claims 2 ----
\* C33: every endpoint's failure count is at most its request count, so the
\* failure rate failures / totalRequests of the score lies in [0, 1].
C33_FailuresAtMostRequests ==
    \A ch \in Chains : \A i \in Endpoints(ch) :
        chainConfigs[ch].endpoints[i].failures
            <= chainConfigs[ch].endpoints[i].totalRequests


\* ------------------------------------------ clock-anomaly specification ----
\* How far Date.now() may be set back below the time of construction.
MaxSkew == 2

\* Date.now() is the wall clock: it may be set back between two calls.
ClockBack ==
    /\ now > StartTime - MaxSkew
    /\ now' = now - 1
    /\ UNCHANGED <<bucketVars, systemVars>>

\* The deepest debt (tokens below 0, in units) from which a timer still
\* fires in SpecClock.
MaxDebt == 2

\* The timer of a suspended waitForToken fires.  setTimeout does not follow
\* the wall clock, so Date.now() may read anything when it does.
BTimer(w) ==
    /\ waiters[w].pc = "waiting"
    /\ bucket.tokens > 0 - MaxDebt
    /\ bucket' = WaitForTokenEnd(bucket, now)
    /\ ret' = Observed("resume", waiters[w].waitTime, waiters[w].atCall)
    /\ waiters' = [waiters EXCEPT ![w] = Idle]
    /\ UNCHANGED <<now, systemVars>>

\* One caller at a time waits in SpecClock.
NextClock ==
    \/ BTryConsume
    \/ BWaitForToken(1)
    \/ BTimer(1)
    \/ BGetState
    \/ BReset
    \/ Tick
    \/ ClockBack

SpecClock == InitBucket /\ [][NextClock]_vars

\* The tokens the last call took after its refill.
Taken ==
    IF ret.op \in {"waitForToken", "resume"} THEN TokUnit
    ELSE IF ret.op = "tryConsume" THEN ret.value * TokUnit
    ELSE 0

\* C34: the refill every operation starts with never decreases the token
\* count, and leaves it unchanged when the time since lastRefill is zero or
\* negative: the count after the call is the count before it, less what the
\* call itself took, plus a refill amount that is never negative and is 0
\* for a zero or negative delta.
C34_RefillNeverDecreases ==
    ret.op \in {"tryConsume", "waitForToken", "suspend", "resume", "getState"} =>
        /\ bucket.tokens + Taken >= ret.before
        /\ ret.elapsed <= 0 => bucket.tokens + Taken = ret.before

\* C34 witness: getState refilled a bucket that was not full while the clock
\* read less than lastRefill, and the tokens stayed as they were.
C34_Witness ==
    /\ ret.op = "getState"
    /\ ret.elapsed < 0
    /\ ret.before < bucket.capacity
    /\ bucket.tokens = ret.before


\* ------------------------------------------------ burst specification ----
\* The longest recorded sequence of calls on the bucket.
MaxLog == 6

\* The calls made on the bucket since its construction, in order: the
\* operation, the value tryConsume returned and the Date.now() of the call.
Log == calls

LogTryConsume ==
    /\ Len(Log) < MaxLog
    /\ bucket' = TryConsume(bucket, now).bucket
    /\ ret' = Observed("tryConsume", IF TryConsume(bucket, now).ok THEN 1 ELSE 0, 0)
    /\ calls' = Append(Log, [op |-> "tryConsume", ok |-> TryConsume(bucket, now).ok,
                            at |-> now])
    /\ UNCHANGED <<now, waiters, config, health, queues, chainConfigs, admitted>>

LogReset ==
    /\ Len(Log) < MaxLog
    /\ bucket' = Reset(bucket, now)
    /\ ret' = Observed("reset", 0, 0)
    /\ calls' = Append(Log, [op |-> "reset", ok |-> TRUE, at |-> now])
    /\ UNCHANGED <<now, waiters, config, health, queues, chainConfigs, admitted>>

NextBurst ==
    \/ LogTryConsume
    \/ LogReset
    \/ Tick

SpecBurst == InitBucket /\ [][NextBurst]_vars

\* Position p of the log is a point where the bucket is full: 0 for the
\* construction, or the position of a reset.
FullAt(p) == p = 0 \/ (p \in DOMAIN Log /\ Log[p].op = "reset")

\* The Date.now() at which the bucket was filled at position p.
FilledAt(p) == IF p = 0 THEN StartTime ELSE Log[p].at

\* The k calls after position p are tryConsume calls made with no time
\* elapsed since the bucket was filled.
Immediate(p, k) ==
    /\ p + k <= Len(Log)
    /\ \A i \in (p + 1)..(p + k) :
          Log[i].op = "tryConsume" /\ Log[i].at = FilledAt(p)

\* C35: from a full bucket of capacity C (after construction or after
\* reset) and with no time elapsing, the k-th consecutive tryConsume returns
\* true for k <= C and false for k = C + 1 and beyond; reset leaves
\* tokens = capacity.
C35_BurstOfCapacity ==
    /\ \A p \in 0..Len(Log) : \A k \in 1..MaxLog :
          (FullAt(p) /\ Immediate(p, k)) =>
              (Log[p + k].ok <=> (k * TokUnit <= bucket.capacity))
    /\ ret.op = "reset" => bucket.tokens = bucket.capacity

\* C35 witness: a bucket of capacity 2 answered true, true, false to three
\* immediate tryConsume calls, was reset, and answered true twice again.
C35_Witness ==
    /\ bucket.capacity = 2 * TokUnit
    /\ Len(Log) = 6
    /\ Immediate(0, 3)
    /\ Log[1].ok /\ Log[2].ok /\ ~Log[3].ok
    /\ Log[4].op = "reset"
    /\ Immediate(4, 2)
    /\ Log[5].ok /\ Log[6].ok

=============================================================================
